---- MODULE Spec2Model ----
(***************************************************************************)
(* Actor and critic network wrappers of ac_nets.py: CriticNetwork and      *)
(* ActorNetwork, their evaluation calls and their batch_update.            *)
(*                                                                         *)
(* Numbers are exact rationals <<n, d>> (d > 0, lowest terms) extended     *)
(* with the IEEE specials: <<1,0>> is +inf, <<-1,0>> is -inf, <<0,0>> is   *)
(* NaN.  A tensor is [shape, data] with data in row-major order.  The      *)
(* three-layer network is reduced to one weight per output, applied to the *)
(* sum of the observation's features; Adam is reduced to its sign step     *)
(* (one unit against the gradient's sign), the gradient being the central  *)
(* difference of the loss.  Logarithms are tabulated in hundredths, the    *)
(* softmax is taken to base 2.                                             *)
(***************************************************************************)
EXTENDS Integers, Sequences, FiniteSets, TLC

\* ---------------------------------------------------------------- bounds
NumOuts == 2       \* critic_actions / actor_actions of the constructors
NFeat == 1         \* n_features of the constructors
Beta == 1          \* beta of ActorNetwork's constructor
MaxSteps == 1      \* optimizer steps explored when the arguments are free
MaxLong == 22      \* optimizer steps of a trainer that repeats one batch
ExpMax == 4        \* precision of the softmax: ratios below 2^-ExpMax are flushed

\* the capacity of the loss history (len(self.losses)>20)
HistCap == 20

\* ---------------------------------------------------------------- numbers
NaN == <<0, 0>>
PInf == <<1, 0>>
NInf == <<-1, 0>>
Num(k) == <<k, 1>>

Abs(k) == IF k < 0 THEN -k ELSE k
Sgn(k) == IF k < 0 THEN -1 ELSE IF k = 0 THEN 0 ELSE 1
Max2(a, b) == IF a < b THEN b ELSE a
Min2(a, b) == IF a < b THEN a ELSE b

RECURSIVE GCD(_, _)
GCD(a, b) == IF b = 0 THEN a ELSE GCD(b, a % b)

\* the value n/d in lowest terms; d = 0 gives the special of n's sign
Norm(n, d) ==
  IF d = 0 THEN <<Sgn(n), 0>>
  ELSE IF d = 1 THEN <<n, 1>>
  ELSE LET s == IF d < 0 THEN -1 ELSE 1
           g == GCD(Abs(n), Abs(d))
       IN  <<(s * n) \div g, (s * d) \div g>>

IsFin(v) == v[2] # 0
IsNaN(v) == v = NaN

VAdd(a, b) ==
  IF a[2] = 0 /\ b[2] = 0 THEN (IF a = b THEN a ELSE NaN)
  ELSE Norm(a[1] * b[2] + b[1] * a[2], a[2] * b[2])
VNeg(a) == <<-a[1], a[2]>>
VSub(a, b) == VAdd(a, VNeg(b))
VMul(a, b) == Norm(a[1] * b[1], a[2] * b[2])
VDivInt(a, k) == Norm(a[1], a[2] * k)
VSq(a) == VMul(a, a)
\* the sign of a value; NaN has none
VSign(a) == IF IsNaN(a) THEN NaN ELSE Num(Sgn(a[1]))
\* .long(): truncation toward zero (finite values)
Trunc(a) == Num(Sgn(a[1]) * (Abs(a[1]) \div a[2]))
IsInt(a) == a[2] = 1

RECURSIVE SumSeq(_)
SumSeq(s) == IF s = <<>> THEN Num(0) ELSE VAdd(s[1], SumSeq(Tail(s)))

\* ---------------------------------------------------------------- tensors
RECURSIVE Prod(_)
Prod(s) == IF s = <<>> THEN 1 ELSE s[1] * Prod(Tail(s))

\* the sequence f[1], .., f[n], its elements evaluated once
Elems(f, n) == SubSeq(f, 1, n)

Tensor(shape, data) == [shape |-> shape, data |-> Elems(data, Prod(shape))]
Full(shape, v) == Tensor(shape, [k \in 1..Prod(shape) |-> v])
Front(s) == SubSeq(s, 1, Len(s) - 1)
Last(s) == s[Len(s)]

\* a shape padded with leading 1s to rank r
PadTo(s, r) ==
  Elems([i \in 1..r |-> IF i <= r - Len(s) THEN 1 ELSE s[i - (r - Len(s))]], r)

\* torch's broadcasting rule: aligned from the right, sizes equal or one of them 1
Compat(s1, s2) ==
  LET r == Max2(Len(s1), Len(s2))
      a == PadTo(s1, r)
      b == PadTo(s2, r)
  IN  \A i \in 1..r : a[i] = b[i] \/ a[i] = 1 \/ b[i] = 1

BShape(s1, s2) ==
  LET r == Max2(Len(s1), Len(s2))
      a == PadTo(s1, r)
      b == PadTo(s2, r)
  IN  Elems([i \in 1..r |-> Max2(a[i], b[i])], r)

\* the row-major strides of a shape
Strides(s) == Elems([i \in 1..Len(s) |-> Prod(SubSeq(s, i + 1, Len(s)))], Len(s))

\* the data of T broadcast to the shape R: position k of R reads the position of T
\* that has index 0 along every dimension of size 1
Expand(T, R) ==
  IF T.shape = R THEN T.data
  ELSE LET r == Len(R)
           ps == PadTo(T.shape, r)
           sR == Strides(R)
           sT == Strides(ps)
           RECURSIVE Off(_, _)
           Off(i, k) ==
             IF i > r THEN 0
             ELSE (IF ps[i] = 1 THEN 0 ELSE (((k - 1) \div sR[i]) % R[i]) * sT[i])
                    + Off(i + 1, k)
       IN  Elems([k \in 1..Prod(R) |-> T.data[1 + Off(1, k)]], Prod(R))

\* the common shape of two broadcastable tensors
Common(A, B) == IF A.shape = B.shape THEN A.shape ELSE BShape(A.shape, B.shape)

\* A * B elementwise, with broadcasting
MulT(A, B) ==
  LET R == Common(A, B)
      a == Expand(A, R)
      b == Expand(B, R)
  IN  [shape |-> R, data |-> Elems([k \in 1..Len(a) |-> VMul(a[k], b[k])], Len(a))]

\* A - B elementwise, with broadcasting
SubT(A, B) ==
  LET R == Common(A, B)
      a == Expand(A, R)
      b == Expand(B, R)
  IN  [shape |-> R, data |-> Elems([k \in 1..Len(a) |-> VSub(a[k], b[k])], Len(a))]

\* the square of every element
SqT(A) == Tensor(A.shape, [k \in 1..Len(A.data) |-> VSq(A.data[k])])

\* every element times the integer n
ScaleT(n, A) == Tensor(A.shape, [k \in 1..Len(A.data) |-> VMul(Num(n), A.data[k])])

\* .sum(-1, keepdims=True)
SumLast(T) ==
  LET n == Last(T.shape)
      R == Front(T.shape) \o <<1>>
  IN  Tensor(R, [k \in 1..Prod(R) |-> SumSeq(SubSeq(T.data, (k - 1) * n + 1, k * n))])

\* .squeeze(-1): drops the last dimension when its size is 1
Squeeze(T) ==
  IF Len(T.shape) > 0 /\ Last(T.shape) = 1 THEN Tensor(Front(T.shape), T.data) ELSE T

\* .unsqueeze(-1)
Unsqueeze(T) == Tensor(T.shape \o <<1>>, T.data)

\* .mean() over all elements
Mean(T) == VDivInt(SumSeq(T.data), Prod(T.shape))

\* ---------------------------------------------------------------- NeuralNet
\* the outputs 0 .. NumOuts-1; output a is held at position a + 1 of a row
Outs == 0..(NumOuts - 1)

\* nn.Linear accepts an input whose last dimension is the feature dimension
ObsOK(obs) == Len(obs.shape) >= 1 /\ Last(obs.shape) = NFeat

BatchShape(obs) == Front(obs.shape)

\* the sum of the features of row i of an observation batch
RowSum(obs, i) == SumSeq(SubSeq(obs.data, (i - 1) * NFeat + 1, i * NFeat))

\* the raw scores of row i: one weight per output, applied to the row's features
Scores(w, obs, i) ==
  LET x == RowSum(obs, i)
  IN  Elems([j \in 1..NumOuts |-> VMul(w[j], x)], NumOuts)

RECURSIVE Pow2(_)
Pow2(k) == IF k <= 0 THEN 1 ELSE 2 * Pow2(k - 1)

RECURSIVE MaxOver(_)
MaxOver(l) == IF Len(l) = 1 THEN l[1][1] ELSE Max2(l[1][1], MaxOver(Tail(l)))

RECURSIVE SumInt(_)
SumInt(s) == IF s = <<>> THEN 0 ELSE s[1] + SumInt(Tail(s))

\* F.softmax(.., -1) of one row of scores, to base 2 and ExpMax bits below the maximum
Softmax(l) ==
  IF \E j \in 1..NumOuts : ~IsFin(l[j]) THEN Elems([j \in 1..NumOuts |-> NaN], NumOuts)
  ELSE LET top == MaxOver(l)
           c == Elems([j \in 1..NumOuts |-> Pow2(ExpMax - Min2(ExpMax, top - l[j][1]))],
                      NumOuts)
           S == SumInt(c)
       IN  Elems([j \in 1..NumOuts |-> Norm(c[j], S)], NumOuts)

RECURSIVE Concat(_)
Concat(rows) == IF rows = <<>> THEN <<>> ELSE rows[1] \o Concat(Tail(rows))

\* NeuralNet.forward: (.. X N_F) --> (.. X N_A); softmax iff b_actor
Forward(w, obs, b_actor) ==
  LET rows == Prod(BatchShape(obs))
      out == Elems([i \in 1..rows |->
                      IF b_actor THEN Softmax(Scores(w, obs, i)) ELSE Scores(w, obs, i)],
                   rows)
  IN  Tensor(BatchShape(obs) \o <<NumOuts>>, Concat(out))

\* ---------------------------------------------------------------- Categorical
\* 100 * ln(m) for a positive integer m, from a table with a four-bit mantissa
LnTab == <<0, 69, 110, 139, 161, 179, 195, 208, 220, 230, 240, 248, 256, 264, 271>>

RECURSIVE Ln100(_)
Ln100(m) == IF m < 16 THEN LnTab[m] ELSE 69 + Ln100(m \div 2)

\* the logarithm of a probability n/d, in hundredths
LogP(p) == Norm(Ln100(p[1]) - Ln100(p[2]), 100)

\* Categorical(probs=..) validates its parameter: every row a distribution
ProbsOK(probs) == \A k \in 1..Len(probs.data) : IsFin(probs.data[k]) /\ probs.data[k][1] > 0

\* the batch_shape of Categorical(probs=probs)
DistShape(probs) == Front(probs.shape)

ProbAt(probs, i, a) == probs.data[(i - 1) * NumOuts + a + 1]

\* dist.entropy(): -sum p log p of each row, each term rounded to hundredths
Entropy(probs) ==
  LET rows == Prod(DistShape(probs))
      Term(p) == (p[1] * (Ln100(p[2]) - Ln100(p[1]))) \div p[2]
      H(i) == Norm(SumInt(Elems([j \in 1..NumOuts |-> Term(ProbAt(probs, i, j - 1))],
                                 NumOuts)), 100)
  IN  Tensor(DistShape(probs), [i \in 1..rows |-> H(i)])

\* the support check of Categorical.log_prob: integers of [0, num_outs)
InSupport(v) == IsFin(v) /\ IsInt(v) /\ v[1] >= 0 /\ v[1] <= NumOuts - 1

\* dist.log_prob(value) for a value that passed validation
LogProb(probs, value) ==
  LET R == BShape(value.shape, DistShape(probs))
      rowNo == Expand(Tensor(DistShape(probs), [i \in 1..Prod(DistShape(probs)) |-> i]), R)
      idx == Expand(value, R)
  IN  Tensor(R, [k \in 1..Prod(R) |-> LogP(ProbAt(probs, rowNo[k], Trunc(idx[k])[1]))])

\* dist.sample(): any index of positive probability, one per row
Samples(probs) ==
  LET rows == Prod(DistShape(probs))
  IN  {Tensor(DistShape(probs), [i \in 1..rows |-> Num(f[i])]) :
         f \in {g \in [1..rows -> Outs] : \A i \in 1..rows : ProbAt(probs, i, g[i])[1] > 0}}

\* ---------------------------------------------------------------- optimizer
\* loss.backward(): the derivative of the loss in each weight, as the central
\* difference of the loss as a function of the weights
Shift(w, j, d) == [w EXCEPT ![j] = VAdd(@, Num(d))]

\* up[j] and down[j] are the loss with weight j raised and lowered by one
Backward(w, up, down) ==
  Elems([j \in 1..NumOuts |->
           IF ~IsFin(w[j]) THEN NaN ELSE VDivInt(VSub(up[j], down[j]), 2)], NumOuts)

\* Adam.step(): every weight moves one unit against the sign of its gradient; a
\* non-finite gradient leaves NaN in the weight
AdamStep(w, g) ==
  Elems([j \in 1..NumOuts |->
           IF IsFin(g[j]) /\ IsFin(w[j]) THEN VSub(w[j], VSign(g[j])) ELSE NaN], NumOuts)

\* faulty variant of NpMean: divides by the capacity of the history
NpMeanOverCap(losses) == VDivInt(SumSeq(losses), HistCap)

\* np.mean(self.losses)
NpMean(losses) == VDivInt(SumSeq(losses), Len(losses))

\* faulty variant of Record: the history is never trimmed
RecordNoEvict(losses, get_loss) == Append(losses, get_loss)

\* faulty variant of Record: a full history drops the entry just appended
RecordEvictNewest(losses, get_loss) ==
  LET l == Append(losses, get_loss)
  IN  IF Len(l) > HistCap THEN Front(l) ELSE l

\* self.losses after append and the eviction of the oldest entry
Record(losses, get_loss) ==
  LET l == Append(losses, get_loss)
  IN  IF Len(l) > HistCap THEN Tail(l) ELSE l

\* ---------------------------------------------------------------- CriticNetwork
\* the selection weights of batch_update: one-hot of the indices, or act itself
OneHot(idx) ==
  Tensor(idx.shape \o <<NumOuts>>,
         [k \in 1..(Prod(idx.shape) * NumOuts) |->
            IF Trunc(idx.data[((k - 1) \div NumOuts) + 1])[1] = (k - 1) % NumOuts
            THEN Num(1) ELSE Num(0)])

\* faulty variant of ClassOK: the upper limit is off by one
ClassOKLoose(v) == IsFin(v) /\ Trunc(v)[1] >= 0 /\ Trunc(v)[1] <= NumOuts

\* F.one_hot rejects a class value below 0 or not below num_classes
ClassOK(v) == IsFin(v) /\ Trunc(v)[1] >= 0 /\ Trunc(v)[1] < NumOuts

QSel(act, action_distribution) == IF action_distribution THEN act ELSE OneHot(Squeeze(act))

\* the shape of dot_prd
DotShape(obs, act, action_distribution) ==
  Front(BShape(BatchShape(obs) \o <<NumOuts>>, QSel(act, action_distribution).shape)) \o <<1>>

\* the error batch_update raises, in the order of its statements, or "none"
CriticError(obs, act, target, action_distribution) ==
  IF ~ObsOK(obs) THEN "ShapeMismatch"
  ELSE IF ~action_distribution /\ \E k \in 1..Len(act.data) : ~ClassOK(act.data[k])
    THEN "IndexOutOfRange"
  ELSE IF ~Compat(BatchShape(obs) \o <<NumOuts>>, QSel(act, action_distribution).shape)
    THEN "ShapeMismatch"
  ELSE IF ~Compat(target.shape, DotShape(obs, act, action_distribution))
    THEN "ShapeMismatch"
  ELSE "none"

\* loss = self.loss(target, dot_prd) with the weights w
CriticLoss(w, obs, act, target, action_distribution) ==
  LET Q == Forward(w, obs, FALSE)
      dot_prd == SumLast(MulT(Q, QSel(act, action_distribution)))
  IN  Mean(SqT(SubT(target, dot_prd)))

\* faulty variant of Raised: the failed call is counted as an optimizer step
RaisedAfterStep(c) == [c EXCEPT !.grad = <<>>, !.step = @ + 1]

\* the trainer when batch_update raises: only zero_grad() has run
Raised(c) == [c EXCEPT !.grad = <<>>]

\* CriticNetwork.__init__
NewCritic(w0) ==
  [w |-> w0, step |-> 0, grad |-> <<>>, losses |-> <<>>, critic_loss |-> PInf]

\* CriticNetwork.batch_update: the trainer afterwards, the error raised and the loss
CriticBatchUpdate(c, obs, act, target, action_distribution) ==
  LET err == CriticError(obs, act, target, action_distribution)
      L(w) == CriticLoss(w, obs, act, target, action_distribution)
      loss == L(c.w)
      g == Backward(c.w, [j \in 1..NumOuts |-> L(Shift(c.w, j, 1))],
                         [j \in 1..NumOuts |-> L(Shift(c.w, j, -1))])
      losses == Record(c.losses, loss)
  IN  IF err # "none"
      THEN [err |-> err, loss |-> <<>>, c |-> Raised(c)]
      ELSE [err |-> "none", loss |-> loss,
            c |-> [w |-> AdamStep(c.w, g), step |-> c.step + 1, grad |-> g,
                   losses |-> losses, critic_loss |-> NpMean(losses)]]

\* faulty variant of RunMain: a pass with grad counts as an optimizer step
RunMainStepping(c, obs, grad) ==
  IF ~ObsOK(obs) THEN [err |-> "ShapeMismatch", out |-> <<>>, c |-> c]
  ELSE [err |-> "none", out |-> Forward(c.w, obs, FALSE),
        c |-> IF grad THEN [c EXCEPT !.step = @ + 1] ELSE c]

\* CriticNetwork.run_main: the output (the same with and without grad) and the
\* trainer afterwards
RunMain(c, obs, grad) ==
  IF ~ObsOK(obs) THEN [err |-> "ShapeMismatch", out |-> <<>>, c |-> c]
  ELSE [err |-> "none", out |-> Forward(c.w, obs, FALSE), c |-> c]

\* ---------------------------------------------------------------- ActorNetwork
\* the shape of log_prob's result: value broadcast against the batch shape
LogProbShape(obs, act) == BShape(Squeeze(act).shape, BatchShape(obs))

\* the shape of pg_loss
PgShape(obs, act, adv, action_distribution) ==
  IF action_distribution THEN adv.shape
  ELSE BShape(adv.shape, LogProbShape(obs, act) \o <<1>>)

\* the error batch_update raises, in the order of its statements, or "none"
ActorError(w, obs, act, adv, action_distribution) ==
  IF ~ObsOK(obs) THEN "ShapeMismatch"
  ELSE IF ~ProbsOK(Forward(w, obs, TRUE)) THEN "InvalidDistribution"
  ELSE IF ~action_distribution /\ ~Compat(Squeeze(act).shape, BatchShape(obs))
    THEN "ShapeMismatch"
  ELSE IF ~action_distribution /\ \E k \in 1..Len(act.data) : ~InSupport(act.data[k])
    THEN "IndexOutOfRange"
  ELSE IF ~action_distribution /\ ~Compat(adv.shape, LogProbShape(obs, act) \o <<1>>)
    THEN "ShapeMismatch"
  ELSE IF ~Compat(PgShape(obs, act, adv, action_distribution), BatchShape(obs) \o <<1>>)
    THEN "ShapeMismatch"
  ELSE "none"

\* faulty variant of PgLoss: the distribution branch weights the advantage by the
\* first entry of the actions
PgLossReadsActions(probs, act, adv, action_distribution) ==
  IF action_distribution
  THEN Tensor(adv.shape, [k \in 1..Len(adv.data) |-> VMul(VNeg(adv.data[k]), act.data[1])])
  ELSE LET lp == LogProb(probs, Squeeze(act))
           neglogp == Unsqueeze(Tensor(lp.shape, [k \in 1..Len(lp.data) |-> VNeg(lp.data[k])]))
       IN  MulT(adv, neglogp)

\* pg_loss of batch_update
PgLoss(probs, act, adv, action_distribution) ==
  IF action_distribution
  THEN Tensor(adv.shape, [k \in 1..Len(adv.data) |-> VNeg(adv.data[k])])
  ELSE LET lp == LogProb(probs, Squeeze(act))
           neglogp == Unsqueeze(Tensor(lp.shape, [k \in 1..Len(lp.data) |-> VNeg(lp.data[k])]))
       IN  MulT(adv, neglogp)

\* loss = (pg_loss - self.beta*entropy).mean() with the weights w
ActorLoss(w, obs, act, adv, action_distribution) ==
  LET probs == Forward(w, obs, TRUE)
      entropy == Unsqueeze(Entropy(probs))
      pg_loss == PgLoss(probs, act, adv, action_distribution)
  IN  Mean(SubT(pg_loss, ScaleT(Beta, entropy)))

\* ActorNetwork.__init__
NewActor(w0) ==
  [w |-> w0, step |-> 0, grad |-> <<>>, losses |-> <<>>, actor_loss |-> PInf]

\* ActorNetwork.batch_update: the trainer afterwards, the error raised and the loss
ActorBatchUpdate(c, obs, act, adv, action_distribution) ==
  LET err == ActorError(c.w, obs, act, adv, action_distribution)
      L(w) == ActorLoss(w, obs, act, adv, action_distribution)
      loss == L(c.w)
      g == Backward(c.w, [j \in 1..NumOuts |-> L(Shift(c.w, j, 1))],
                         [j \in 1..NumOuts |-> L(Shift(c.w, j, -1))])
      losses == Record(c.losses, loss)
  IN  IF err # "none"
      THEN [err |-> err, loss |-> <<>>, c |-> Raised(c)]
      ELSE [err |-> "none", loss |-> loss,
            c |-> [w |-> AdamStep(c.w, g), step |-> c.step + 1, grad |-> g,
                   losses |-> losses, actor_loss |-> NpMean(losses)]]

\* ActorNetwork.action_distribution: the probabilities and the trainer afterwards
ActionDistribution(c, obs, grad) ==
  IF ~ObsOK(obs) THEN [err |-> "ShapeMismatch", out |-> <<>>, c |-> c]
  ELSE [err |-> "none", out |-> Forward(c.w, obs, TRUE), c |-> c]

\* ActorNetwork.sample_action: the results dist.sample() can give, each with the
\* trainer afterwards
SampleAction(c, obs, grad) ==
  IF ~ObsOK(obs) THEN {[err |-> "ShapeMismatch", out |-> <<>>, c |-> c]}
  ELSE IF ~ProbsOK(Forward(c.w, obs, TRUE))
    THEN {[err |-> "InvalidDistribution", out |-> <<>>, c |-> c]}
  ELSE {[err |-> "none", out |-> act, c |-> c] : act \in Samples(Forward(c.w, obs, TRUE))}

\* ---------------------------------------------------------------- arguments
\* a batch of two observations, the features of the first all 1, of the second all 2
Obs2(nf) == Tensor(<<2, 1, nf>>, [k \in 1..(2 * nf) |-> IF k <= nf THEN Num(1) ELSE Num(2)])

\* observation batches (N_S X N_E X N_F); the second has a wrong feature dimension
ObsSet == { Obs2(NFeat), Obs2(NFeat + 1) }

\* every row its first action with weight 1, the others with weight 0
FirstAction(shape) ==
  Tensor(shape, [k \in 1..Prod(shape) |-> IF k % NumOuts = 1 THEN Num(1) ELSE Num(0)])

\* action indices (N_S X N_E X 1): in range, out of range, of another batch shape
IdxActs ==
  { Tensor(<<2, 1, 1>>, <<Num(0), Num(1)>>), Tensor(<<2, 1, 1>>, <<Num(0), Num(NumOuts)>>),
    Full(<<1, 1, 1>>, Num(0)), Full(<<3, 1, 1>>, Num(-1)) }

\* action distributions (N_S X N_E X N_A), and two of another shape
DistActs ==
  { FirstAction(<<2, 1, NumOuts>>), Full(<<1, 1, 1>>, Num(1)), Full(<<3, 1, NumOuts>>, Num(1)) }

AllActs == IdxActs \cup DistActs

\* targets and advantages (N_S X N_E X 1), finite or not, and of another batch shape
AuxSet ==
  { Tensor(<<2, 1, 1>>, <<Num(0), Num(2)>>), Tensor(<<2, 1, 1>>, <<Num(1), PInf>>),
    Full(<<1, 1, 1>>, Num(-1)), Full(<<3, 1, 1>>, Num(1)) }

Call(obs, act, aux, flag) == [obs |-> obs, act |-> act, aux |-> aux, flag |-> flag]

\* the argument lists of a batch_update call
Calls ==
  {Call(o, a, x, FALSE) : o \in ObsSet, a \in IdxActs, x \in AuxSet}
    \cup {Call(o, a, x, TRUE) : o \in ObsSet, a \in DistActs, x \in AuxSet}

\* the batches a training loop repeats
LongCalls ==
  { Call(Obs2(NFeat), Full(<<2, 1, 1>>, Num(0)), Full(<<2, 1, 1>>, Num(1)), FALSE),
    Call(Obs2(NFeat), Tensor(<<2, 1, 1>>, <<Num(0), Num(1)>>), Full(<<1, 1, 1>>, Num(-1)), FALSE),
    Call(Obs2(NFeat), FirstAction(<<2, 1, NumOuts>>), Tensor(<<2, 1, 1>>, <<Num(0), Num(2)>>),
         TRUE) }

\* the ill-formed calls made in between
BadCalls ==
  { Call(Obs2(NFeat), Tensor(<<2, 1, 1>>, <<Num(0), Num(NumOuts)>>),
         Tensor(<<2, 1, 1>>, <<Num(0), Num(2)>>), FALSE),
    Call(Obs2(NFeat + 1), Tensor(<<2, 1, 1>>, <<Num(0), Num(1)>>),
         Tensor(<<2, 1, 1>>, <<Num(0), Num(2)>>), FALSE) }

\* the weights of a freshly constructed network
InitWeights == { Elems([j \in 1..NumOuts |-> Num(j - 1)], NumOuts) }

\* ---------------------------------------------------------------- state
VARIABLES
  critic,   \* the CriticNetwork: w, step (Adam's), grad, losses, critic_loss
  actor,    \* the ActorNetwork: w, step (Adam's), grad, losses, actor_loss
  last,     \* the last call: who, op, its arguments, the error raised, its result
  log,      \* the losses of all successful updates of each trainer, oldest first
  plan      \* <<>>, or <<i, call>>: a training loop repeats call on trainer i

vars == <<critic, actor, last, log, plan>>

NoT == Tensor(<<0>>, <<>>)

\* alts: what an update in distribution mode gives with each other actions argument
Entry(who, op, in, res) ==
  [who |-> who, op |-> op, obs |-> in.obs, act |-> in.act, aux |-> in.aux,
   flag |-> in.flag, err |-> res.err, loss |-> res.loss, out |-> res.out,
   alts |-> res.alts]

Start ==
  /\ critic \in {NewCritic(w0) : w0 \in InitWeights}
  /\ actor \in {NewActor(w0) : w0 \in InitWeights}
  /\ last = Entry("none", "init", Call(NoT, NoT, NoT, FALSE),
                  [err |-> "none", loss |-> <<>>, out |-> <<>>, alts |-> {}])
  /\ log = [critic |-> <<>>, actor |-> <<>>]

\* callers that pass any arguments
Init == Start /\ plan = <<>>

\* a training loop that repeats one batch on one trainer
InitLong == Start /\ plan \in {<<i, c>> : i \in {1, 2}, c \in LongCalls}

\* the calls explored: with free arguments, successful updates while the optimizer
\* steps are within MaxSteps; in a training loop, its batch and the ill-formed calls
Explored(i, in, err) ==
  IF plan = <<>>
  THEN critic.step + actor.step < MaxSteps \/ err # "none"
  ELSE \/ in \in BadCalls
       \/ plan[1] = i /\ in = plan[2] /\ (IF i = 1 THEN critic.step ELSE actor.step) < MaxLong

\* the observations passed to the evaluation calls
EvalObs == IF plan = <<>> THEN ObsSet ELSE {plan[2].obs}

Logged(l, res) == IF res.err = "none" THEN Append(l, res.loss) ELSE l

\* critic.batch_update(obs, act, target, action_distribution)
CriticUpdate ==
  \E in \in Calls \cup LongCalls :
    /\ Explored(1, in, CriticError(in.obs, in.act, in.aux, in.flag))
    /\ \E res \in {CriticBatchUpdate(critic, in.obs, in.act, in.aux, in.flag)} :
           /\ critic' = res.c
           /\ last' = Entry("critic", "batch_update", in,
                            [err |-> res.err, loss |-> res.loss, out |-> <<>>, alts |-> {}])
           /\ log' = [log EXCEPT !.critic = Logged(@, res)]
           /\ UNCHANGED <<actor, plan>>

\* actor.batch_update(obs, act, adv, action_distribution)
ActorUpdate ==
  \E in \in Calls \cup LongCalls :
    /\ Explored(2, in, ActorError(actor.w, in.obs, in.act, in.aux, in.flag))
    /\ \E res \in {ActorBatchUpdate(actor, in.obs, in.act, in.aux, in.flag)} :
           /\ actor' = res.c
           /\ last' = Entry("actor", "batch_update", in,
                            [err |-> res.err, loss |-> res.loss, out |-> <<>>,
                             alts |-> IF in.flag
                                      THEN {ActorBatchUpdate(actor, in.obs, a, in.aux, TRUE) :
                                              a \in AllActs}
                                      ELSE {}])
           /\ log' = [log EXCEPT !.actor = Logged(@, res)]
           /\ UNCHANGED <<critic, plan>>

\* critic.run_main(obs, grad)
CriticRunMain ==
  \E obs \in EvalObs, grad \in BOOLEAN :
    \E res \in {RunMain(critic, obs, grad)} :
        /\ critic' = res.c
        /\ last' = Entry("critic", "run_main", Call(obs, NoT, NoT, grad),
                         [err |-> res.err, loss |-> <<>>, out |-> res.out, alts |-> {}])
        /\ UNCHANGED <<actor, log, plan>>

\* actor.action_distribution(obs, grad)
ActorDistribution ==
  \E obs \in EvalObs, grad \in BOOLEAN :
    \E res \in {ActionDistribution(actor, obs, grad)} :
        /\ actor' = res.c
        /\ last' = Entry("actor", "action_distribution", Call(obs, NoT, NoT, grad),
                         [err |-> res.err, loss |-> <<>>, out |-> res.out, alts |-> {}])
        /\ UNCHANGED <<critic, log, plan>>

\* actor.sample_action(obs, grad)
ActorSample ==
  \E obs \in EvalObs, grad \in BOOLEAN :
    \E res \in SampleAction(actor, obs, grad) :
      /\ actor' = res.c
      /\ last' = Entry("actor", "sample_action", Call(obs, NoT, NoT, grad),
                       [err |-> res.err, loss |-> <<>>, out |-> res.out, alts |-> {}])
      /\ UNCHANGED <<critic, log, plan>>

Next ==
  \/ CriticUpdate
  \/ ActorUpdate
  \/ CriticRunMain
  \/ ActorDistribution
  \/ ActorSample

Spec == Init /\ [][Next]_vars

SpecLong == InitLong /\ [][Next]_vars

\* ---------------------------------------------------------------- properties
IsUpdate == last.op = "batch_update"
Failed == IsUpdate /\ last.err # "none"
Succeeded == IsUpdate /\ last.err = "none"
EvalOps == {"run_main", "action_distribution", "sample_action"}

\* the last n entries of a sequence, all of them when it has no more than n
LastN(l, n) == IF Len(l) <= n THEN l ELSE SubSeq(l, Len(l) - n + 1, Len(l))

\* m is the arithmetic mean of the entries of l
IsMeanOf(m, l) ==
  LET t == SumSeq(l)
  IN  IF IsFin(t) THEN IsFin(m) /\ m[1] * t[2] * Len(l) = t[1] * m[2] ELSE m = t

\* some action index of the tensor lies outside [0, num_outs)
AnyOutOfRange(act) ==
  \E k \in 1..Len(act.data) : act.data[k][1] < 0 \/ act.data[k][1] >= NumOuts

\* observations, actions and targets (advantages) have the same batch dimensions
BatchConsistent(obs, act, aux) ==
  BatchShape(obs) = Front(act.shape) /\ BatchShape(obs) = Front(aux.shape)

\* C1: the loss history of the critic and of the actor never holds more than 20
\* entries, whatever updates and evaluations were called.
C1_HistoryBounded == Len(critic.losses) <= HistCap /\ Len(actor.losses) <= HistCap

C1_Witness == critic.step > HistCap /\ Len(critic.losses) = HistCap /\ last.op \in EvalOps

\* C2: the loss history of a trainer is the losses of its most recent 20 successful
\* updates in call order, and all of them while there are no more than 20.
C2_SlidingWindow ==
  /\ critic.losses = LastN(log.critic, HistCap)
  /\ actor.losses = LastN(log.actor, HistCap)

C2_Witness ==
  /\ Len(log.actor) > HistCap
  /\ log.actor[1] # log.actor[Len(log.actor)]
  /\ actor.losses[1] # actor.losses[2]

\* C3: an update that ends in an error leaves the weights, the optimizer state, the
\* loss history and the running mean of both trainers as they were.
C3_FailedUpdateKeepsState ==
  [][(last'.op = "batch_update" /\ last'.err # "none") =>
       /\ critic'.w = critic.w /\ critic'.step = critic.step
       /\ critic'.losses = critic.losses /\ critic'.critic_loss = critic.critic_loss
       /\ actor'.w = actor.w /\ actor'.step = actor.step
       /\ actor'.losses = actor.losses /\ actor'.actor_loss = actor.actor_loss
       /\ log' = log]_vars

C3_Witness ==
  /\ Failed /\ last.who = "critic" /\ last.err = "ShapeMismatch"
  /\ Len(critic.losses) > 0 /\ critic.grad = <<>>

\* C4: an update whose loss is not finite ends in an error: it never returns
\* normally with the non-finite loss recorded.
C4_NonFiniteSurfaced == ~(IsUpdate /\ last.err = "none" /\ ~IsFin(last.loss))

\* C5 as stated: an index-mode update with an action index outside [0, num_outs)
\* ends in the out-of-range error.
C5_OutOfRangeError ==
  (IsUpdate /\ ~last.flag /\ AnyOutOfRange(last.act)) => last.err = "IndexOutOfRange"

\* C5: an index-mode update with an action index outside [0, num_outs) ends in an
\* error; the error is the out-of-range error unless an earlier statement of the call
\* raised: the forward pass on the observations, the validation of the policy output
\* or, in the actor, the broadcast check of the actions against the batch shape.
C5_OutOfRangeFails ==
  (IsUpdate /\ ~last.flag /\ AnyOutOfRange(last.act)) =>
    /\ last.err # "none"
    /\ ( /\ ObsOK(last.obs)
         /\ last.who = "actor" =>
              /\ ProbsOK(Forward(actor.w, last.obs, TRUE))
              /\ Compat(Squeeze(last.act).shape, BatchShape(last.obs)) )
       => last.err = "IndexOutOfRange"

C5_Witness ==
  /\ IsUpdate /\ ~last.flag /\ AnyOutOfRange(last.act)
  /\ last.who = "actor" /\ last.err = "IndexOutOfRange"

\* C6: an update whose observations, actions and targets (advantages) differ in
\* their batch dimensions never completes: it ends in an error.
C6_MismatchRejected ==
  ~(IsUpdate /\ ~BatchConsistent(last.obs, last.act, last.aux) /\ last.err = "none")

\* C7: sample_action returns indices of the shape of the observation batch followed
\* by a dimension of size 1, each index in [0, num_actions).
C7_SampleShape ==
  (last.op = "sample_action" /\ last.err = "none") =>
    /\ last.out.shape = BatchShape(last.obs) \o <<1>>
    /\ ~AnyOutOfRange(last.out)

\* C8: an evaluation call leaves both trainers as they were, and run_main called
\* again on the same observations returns the same output, with or without grad.
C8_EvaluationPure ==
  [][last'.op \in EvalOps =>
       /\ critic' = critic /\ actor' = actor /\ log' = log
       /\ (last.op = "run_main" /\ last'.op = "run_main" /\ last'.obs = last.obs) =>
            (last'.err = last.err /\ last'.out = last.out)]_vars

C8_Witness ==
  /\ last.op = "run_main" /\ last.flag /\ last.err = "none"
  /\ critic.step > 0 /\ actor.step = 0

\* C9: after a successful update the running mean is the arithmetic mean of the loss
\* history as it stands after eviction, and the newest entry of the history is the
\* loss of that update, computed from the weights before the step.
C9_RunningMean ==
  [][(last'.op = "batch_update" /\ last'.err = "none") =>
       /\ last'.who = "critic" =>
            /\ IsMeanOf(critic'.critic_loss, critic'.losses)
            /\ Len(critic'.losses) <= HistCap
            /\ Last(critic'.losses)
                 = CriticLoss(critic.w, last'.obs, last'.act, last'.aux, last'.flag)
       /\ last'.who = "actor" =>
            /\ IsMeanOf(actor'.actor_loss, actor'.losses)
            /\ Len(actor'.losses) <= HistCap
            /\ Last(actor'.losses)
                 = ActorLoss(actor.w, last'.obs, last'.act, last'.aux, last'.flag)]_vars

C9_Witness ==
  /\ Succeeded /\ last.who = "critic" /\ critic.step > HistCap
  /\ critic.losses[HistCap] # critic.losses[HistCap - 1]

\* C10: in the actor's update in distribution mode the actions do not matter: with
\* any other actions argument the call gives the same outcome, loss and trainer.
C10_ActionsIgnored ==
  (IsUpdate /\ last.who = "actor" /\ last.flag) =>
    last.alts = {[err |-> last.err, loss |-> last.loss, c |-> actor]}

C10_Witness ==
  /\ Succeeded /\ last.who = "actor" /\ last.flag
  /\ ~Compat(last.act.shape, BatchShape(last.obs) \o <<NumOuts>>)

====
